---- MODULE Spec2Model ----
(***************************************************************************)
(* Model of the pass execution engine of VTIL-Compiler/common/interface.hpp *)
(* (apply_pass, the pass combinators and wrappers, update_analysis) and of  *)
(* split_offset of VTIL-SymEx/expressions/auxiliaries.cpp.                  *)
(***************************************************************************)
EXTENDS Integers, Sequences, FiniteSets, TLC

\* ---------------------------------------------------------------- bounds

\* Number of basic blocks of the routine.
NumBlocks == 3
\* Largest number of edges of the routine graph.
MaxEdges == 3
\* Largest number of rewrites a block has left for a converging pass.
MaxWork == 2

\* Largest number of sub-passes of a combinator.
MaxSubs == 2
\* Width in bits of the size_t counts of the model.
SizeBits == 4

\* Width in bits of the signed integer split_offset returns the offset in;
\* expressions are as wide or one bit narrower.
SplitBits == 2

Blocks == 1..NumBlocks

\* size_t arithmetic wraps at 2^SizeBits.
SizeMod == 2 ^ SizeBits

\* The recursion of rec never nests deeper than the number of blocks; the
\* guard only stops a walk that fails to short-circuit on visited blocks.
MaxStack == NumBlocks + 1

\* ----------------------------------------------------------- the routine

VARIABLES
    next,           \* basic_block::next, block -> set of successor blocks
    entry_point,    \* routine::entry_point
    work,           \* block contents: rewrites left in each block
    flip            \* block contents: a bit an always-rewriting pass toggles

\* ---------------------------------------------------- apply_pass's state

VARIABLES
    exec_order,     \* T::exec_order of the pass handed to apply_pass
    kind,           \* which transform T::pass is
    pc,             \* position inside apply_pass
    n,              \* std::atomic<size_t> n
    visited,        \* path_set visited
    roots,          \* start blocks rec has not been called on yet
    stack,          \* activation records of rec, innermost last
    queue,          \* blocks for_each has not reached yet
    entries,        \* the depth ordered list
    it_begin,       \* index of the first entry of the current segment
    it_end,         \* index one past the last entry of the current segment
    wstate,         \* per block: the state of the parallel task running worker
    wres,           \* per block: the value opt->pass returned to that task
    ret             \* the value apply_pass returned

\* ---------------------------------------------------------------- history

VARIABLES
    trace,          \* the blocks opt->pass was invoked on, in order
    xflags,         \* the xblock argument of each of those invocations
    leafx,          \* the xblock argument the wrapped T::pass received in each
    sumc            \* the sum of the values opt->pass returned

\* ------------------------------------------------ the combinator's state

VARIABLES
    comb,           \* the pass type called: a plain pass or a combinator
    op,             \* the operation called on it: xpass( rtn ) or pass( blk, xblock )
    subs,           \* the sub-passes T1, Tx..., each a kind and an exec_order
    arg_blk,        \* the blk argument of pass
    xblock,         \* the xblock argument of pass
    cpc,            \* position inside the combinator
    si,             \* index of the sub-pass to run next
    sn,             \* size_t n of the combinator
    cnt,            \* size_t cnt of exhaust_pass
    cret,           \* the value the combinator returned
    log             \* the sub-pass calls of the current round: index, xblock, count
                    \* and the blocks the sub-pass was invoked on

\* -------------------------------------------- history of exhaust_pass

VARIABLES
    rsum,           \* the sum of the counts of the rounds executed
    posRounds,      \* how many rounds reported a count > 0 (counted up to 2)
    zeroRounds,     \* how many rounds reported 0 (counted up to 2)
    lastRound,      \* the count the last executed round reported
    ranAfterZero    \* a sub-pass was called after a round had reported 0

\* ------------------------------------------------------------ wrappers

VARIABLES
    wrap            \* the wrapper around the pass type: none, local_pass, zero_pass

\* ----------------------------------------------------- update_analysis

VARIABLES
    stale,          \* per block: its analysis is not updated (is_updated false)
    reported,       \* per block: what is_updated reported during the enumeration
    update_list,    \* std::vector update_list: the blocks appended, in order
    utask,          \* the state of the parallel task of each update_list element
    ucalls          \* per block: how often update_if was called for it

\* --------------------------------------------------------- split_offset

VARIABLES
    width,          \* the bit width of the expression exp
    exp,            \* the expression split_offset is called with
    spc,            \* position of the split_offset call
    split           \* the pair split_offset returned: base and offset

splitVars == <<width, exp, spc, split>>
roundVars == <<rsum, posRounds, zeroRounds, lastRound, ranAfterZero>>
auxVars == <<wrap, stale, reported, update_list, utask, ucalls, splitVars>>
combVars == <<comb, op, subs, arg_blk, xblock, cpc, si, sn, cnt, cret, log>>
rtnVars == <<next, entry_point, work, flip>>
engVars == <<exec_order, kind, pc, n, visited, roots, stack, queue, entries,
             it_begin, it_end, wstate, wres, ret>>
histVars == <<trace, xflags, leafx, sumc>>
vars == <<rtnVars, engVars, histVars, combVars, roundVars, auxVars>>

execution_order ==
    {"custom", "serial", "serial_bf", "serial_df",
     "parallel", "parallel_bf", "parallel_df"}

PassKinds == {"nop", "reduce", "step", "toggle"}

\* ------------------------------------------------------ graph collaborator

\* basic_block::prev, the inverse of next.
Prev(b) == {p \in Blocks : b \in next[p]}

\* routine::explored_blocks: every block the routine owns.
explored_blocks == Blocks

\* routine::get_exits: the blocks with no successors.
get_exits == {b \in Blocks : next[b] = {}}

\* The links rec follows from blk: blk->next forward, blk->prev backward.
LinksSwapped(blk, fwd) == IF fwd THEN Prev(blk) ELSE next[blk]
Links(blk, fwd) == IF fwd THEN next[blk] ELSE Prev(blk)

NumEdges(nx) ==
    Cardinality({e \in Blocks \X Blocks : e[2] \in nx[e[1]]})

\* ------------------------------------------------------------- the pass

\* The count T::pass reports for a block.
PassCount(k, b) ==
    CASE k = "nop" -> 0
      [] k = "reduce" -> work[b]
      [] k = "step" -> IF work[b] > 0 THEN 1 ELSE 0
      [] k = "toggle" -> 1

\* The block contents after T::pass ran on block b.
Rewritten(w, k, b) ==
    CASE k = "reduce" -> [w EXCEPT ![b] = 0]
      [] k = "step" -> [w EXCEPT ![b] = IF w[b] > 0 THEN w[b] - 1 ELSE 0]
      [] OTHER -> w
WorkAfter(k, b) == Rewritten(work, k, b)

Flipped(f, k, b) ==
    IF k = "toggle" THEN [f EXCEPT ![b] = 1 - f[b]] ELSE f
FlipAfter(k, b) == Flipped(flip, k, b)

\* combine_pass<T> : T {}: a pass list of one pass is that pass, and it keeps
\* pass_interface::xpass unless it is nop_pass; combine_pass<T1, Tx...> and
\* nop_pass override xpass.
OverridesXpass ==
    comb # "combine" \/ Len(subs) > 1 \/ subs[1].order = "custom"

\* The object apply_pass was given is the wrapper itself: opt->pass is the
\* wrapper's pass.
OptIsWrapper == ~OverridesXpass /\ op = "xpass"

\* worker: opt->pass( block, true ).
WorkerXblockFalse == FALSE
WorkerXblock == TRUE

\* local_pass::pass: return T::pass( blk, false ). The xblock T::pass receives
\* when the wrapper's pass is called with xb.
LocalXblock(xb) == IF wrap = "local" THEN FALSE ELSE xb

\* zero_pass::pass: T::pass( blk, xblock ); return 0. The count the wrapper's
\* pass returns when T::pass returned c.
ZeroCount(c) == IF wrap = "zero" THEN 0 ELSE c

\* The xblock T::pass receives from a worker, and the count opt->pass
\* returns to it.
LeafXblock == IF OptIsWrapper THEN LocalXblock(WorkerXblock) ELSE WorkerXblock
OptCount(b) ==
    IF OptIsWrapper THEN ZeroCount(PassCount(kind, b)) ELSE PassCount(kind, b)

\* n += c on the atomic accumulator.
AccAddLost(acc, c) == c
AccAdd(acc, c) == (acc + c) % SizeMod

\* worker( block ): n += opt->pass( block, true ), as one step of a serial walk.
Worker(b) ==
    /\ n' = AccAdd(n, OptCount(b))
    /\ work' = WorkAfter(kind, b)
    /\ flip' = FlipAfter(kind, b)
    /\ trace' = Append(trace, b)
    /\ xflags' = Append(xflags, WorkerXblock)
    /\ leafx' = Append(leafx, LeafXblock)
    /\ sumc' = sumc + OptCount(b)

\* ------------------------------------------------- the depth ordered list

\* The blocks a leveled walk starts from: the entry forward, the exits backward.
StartBlocks(fwd) == IF fwd THEN {entry_point} ELSE get_exits

RECURSIVE ReachWithin(_, _)
\* The blocks at most k links away from the start blocks.
ReachWithin(k, fwd) ==
    IF k = 0 THEN StartBlocks(fwd)
    ELSE LET r == ReachWithin(k - 1, fwd)
         IN r \cup UNION {Links(b, fwd) : b \in r}

\* depth_placement::level_dependency of a listed block.
LevelOf(b, fwd) ==
    CHOOSE k \in 0..NumBlocks :
        /\ b \in ReachWithin(k, fwd)
        /\ \A j \in 0..(k - 1) : b \notin ReachWithin(j, fwd)

RECURSIVE SortedEntries(_, _)
SortedEntries(S, fwd) ==
    IF S = {} THEN <<>>
    ELSE LET key(b) == LevelOf(b, fwd) * (NumBlocks + 1) + b
             m == CHOOSE b \in S : \A c \in S : key(b) <= key(c)
         IN <<[block |-> m, level_dependency |-> LevelOf(m, fwd)]>>
            \o SortedEntries(S \ {m}, fwd)

\* routine::get_depth_ordered_list( fwd ): each block the walk reaches, once,
\* ordered by dependency level.
get_depth_ordered_list(fwd) == SortedEntries(ReachWithin(NumBlocks, fwd), fwd)

RECURSIVE ScanSegment(_, _, _)
ScanSegment(es, b, e) ==
    IF e <= Len(es) /\ es[e].level_dependency = es[b].level_dependency
    THEN ScanSegment(es, b, e + 1)
    ELSE e

\* The inner loop of the segmentation: the first iterator past it_begin whose
\* dependency level differs from it_begin's.
SegmentEndWhole(es, b) == Len(es) + 1
SegmentEnd(es, b) == ScanSegment(es, b, b)

\* The blocks of entries[b .. e-1].
SegmentBlocks(es, b, e) == {es[i].block : i \in b..(e - 1)}

\* --------------------------------------------------------------- Init

\* The orders whose walk reads the links and the entry of the routine; the
\* others only enumerate its blocks.
GraphOrders == {"serial_bf", "serial_df", "parallel_bf", "parallel_df"}

\* The chain 1 -> 2 -> ... -> NumBlocks.
ChainGraph == [b \in Blocks |-> IF b < NumBlocks THEN {b + 1} ELSE {}]

\* The block contents the routine was constructed with.
InitialWork == [b \in Blocks |-> b % (MaxWork + 1)]
InitialFlip == [b \in Blocks |-> 0]

Leaf(k, o) == [kind |-> k, order |-> o]

\* struct nop_pass : pass_interface<execution_order::custom>
nop_pass == Leaf("nop", "custom")

\* The sub-passes a combinator is built from: rewriting passes that run
\* through apply_pass, and nop_pass.
SubPasses(orders) ==
    {Leaf(k, o) : k \in {"step", "toggle"}, o \in orders} \cup {nop_pass}

\* The lists T1, Tx... of at least `least` sub-passes; T1 takes its order
\* from `orders`, the others are serial.
SubLists(orders, least) ==
    {l \in UNION {[1..len -> SubPasses(orders)] : len \in least..MaxSubs} :
        \A i \in 2..Len(l) : l[i].order \in {"serial", "custom"}}

\* The state of an apply_pass that has not been entered.
EngineIdle ==
    /\ n = 0
    /\ visited = {}
    /\ roots = {}
    /\ stack = <<>>
    /\ queue = <<>>
    /\ entries = <<>>
    /\ it_begin = 1
    /\ it_end = 1
    /\ wstate = [b \in Blocks |-> "idle"]
    /\ wres = [b \in Blocks |-> 0]
    /\ ret = 0
    /\ trace = <<>>
    /\ xflags = <<>>
    /\ leafx = <<>>
    /\ sumc = 0

\* apply_pass is entered: its locals are fresh.
EngineReset ==
    /\ n' = 0
    /\ visited' = {}
    /\ roots' = {}
    /\ stack' = <<>>
    /\ queue' = <<>>
    /\ entries' = <<>>
    /\ it_begin' = 1
    /\ it_end' = 1
    /\ wstate' = [b \in Blocks |-> "idle"]
    /\ wres' = [b \in Blocks |-> 0]
    /\ ret' = 0
    /\ trace' = <<>>
    /\ xflags' = <<>>
    /\ leafx' = <<>>
    /\ sumc' = 0

\* apply_pass( rtn, opt ) called on a plain pass. The orders that walk the
\* graph are tried on every graph with one rewriting pass (the walk does not
\* read what the pass does), the others with every pass on one graph.
InitApply ==
    /\ comb = "apply"
    /\ wrap = "none"
    /\ op = "apply"
    /\ exec_order \in execution_order
    /\ IF exec_order \in GraphOrders
       THEN /\ next \in {nx \in [Blocks -> SUBSET Blocks] : NumEdges(nx) <= MaxEdges}
            /\ entry_point \in Blocks
            /\ kind = "reduce"
       ELSE /\ next = ChainGraph
            /\ entry_point = 1
            /\ kind \in PassKinds
    /\ subs = <<Leaf(kind, exec_order)>>
    /\ arg_blk = 1
    /\ xblock = FALSE
    /\ pc = "call"
    /\ cpc = "apply"

\* xpass( rtn ) or pass( blk, xblock ) called on a combinator.
InitCombinator ==
    /\ comb \in {"conditional", "exhaust"}
    /\ wrap = "none"
    /\ op \in {"xpass", "pass"}
    /\ subs \in SubLists(IF op = "xpass" THEN {"serial", "parallel"} ELSE {"serial"},
                         IF comb = "conditional" THEN 2 ELSE 1)
    /\ IF op = "pass"
       THEN /\ arg_blk \in Blocks
            /\ xblock \in BOOLEAN
       ELSE /\ arg_blk = 1
            /\ xblock = FALSE
    /\ next = ChainGraph
    /\ entry_point = 1
    /\ exec_order = "serial"
    /\ kind = "nop"
    /\ pc = "idle"
    /\ cpc = IF comb = "conditional" THEN "first" ELSE "round"

\* xpass( rtn ) or pass( blk, xblock ) called on combine_pass<T1, Tx...>, on
\* a single pass T, or on local_pass or zero_pass around one of them.
InitCombine ==
    /\ comb = "combine"
    /\ wrap \in {"none", "local", "zero"}
    /\ op \in {"xpass", "pass"}
    /\ subs \in SubLists(IF op = "xpass" THEN {"serial", "parallel"} ELSE {"serial"}, 1)
    /\ IF op = "pass"
       THEN /\ arg_blk \in Blocks
            /\ xblock \in BOOLEAN
       ELSE /\ arg_blk = 1
            /\ xblock = FALSE
    /\ next = ChainGraph
    /\ entry_point = 1
    /\ exec_order = "serial"
    /\ kind = "nop"
    /\ pc = "idle"
    /\ cpc = "combine"

\* xpass( rtn ) called on update_analysis<T>, with any blocks stale.
InitUpdateAnalysis ==
    /\ comb = "update_analysis"
    /\ wrap = "none"
    /\ op = "xpass"
    /\ subs = <<>>
    /\ stale \in [Blocks -> BOOLEAN]
    /\ arg_blk = 1
    /\ xblock = FALSE
    /\ next = ChainGraph
    /\ entry_point = 1
    /\ exec_order = "custom"
    /\ kind = "nop"
    /\ pc = "idle"
    /\ cpc = "update"

\* ------------------------------------------------------- expressions

\* Expression nodes: a constant of the expression's width, a symbolic
\* variable, a binary operator over two operands.
Const(c) == <<"const", c>>
Symbol(x) == <<"var", x>>
Bin(o, l, r) == <<o, l, r>>

IsConst(e) == e[1] = "const"
Operators == {"add", "sub", "mul"}
Symbols == {"X", "Y"}
Widths == {SplitBits - 1, SplitBits}

Leaves(w) ==
    {Const(c) : c \in 0..(2 ^ w - 1)} \cup {Symbol(x) : x \in Symbols}
Level1(w) ==
    Leaves(w) \cup {Bin(o, l, r) : o \in Operators, l \in Leaves(w), r \in Leaves(w)}
\* The expressions of width w with at most two operators nested.
Exprs(w) ==
    Level1(w)
    \cup {Bin(o, l, r) : o \in Operators, l \in Level1(w), r \in Leaves(w)}
    \cup {Bin(o, l, r) : o \in Operators, l \in Leaves(w), r \in Level1(w)}

\* The value of e at width w under the values env of the variables: the
\* operators work modulo 2^w.
RECURSIVE Eval(_, _, _)
Eval(e, env, w) ==
    CASE e[1] = "const" -> e[2]
      [] e[1] = "var" -> env[e[2]]
      [] e[1] = "add" -> (Eval(e[2], env, w) + Eval(e[3], env, w)) % (2 ^ w)
      [] e[1] = "sub" -> (Eval(e[2], env, w) + 2 ^ w - Eval(e[3], env, w)) % (2 ^ w)
      [] e[1] = "mul" -> (Eval(e[2], env, w) * Eval(e[3], env, w)) % (2 ^ w)

\* expression::get<true>(): the value of a constant of width w read as a
\* signed integer.
Signed(c, w) == IF c >= 2 ^ (w - 1) THEN c - 2 ^ w ELSE c

\* The range of the signed integer the offset is returned in.
OffMin == 0 - 2 ^ (SplitBits - 1)
OffMax == 2 ^ (SplitBits - 1) - 1

\* { A + U, +1 }, { A - U, -1 } with both signs +1.
directivesSameSign ==
    <<[op |-> "add", sign |-> 1], [op |-> "sub", sign |-> 1]>>
\* static const std::pair<instance, int> directives[]
directives ==
    <<[op |-> "add", sign |-> 1], [op |-> "sub", sign |-> 0 - 1]>>

\* fast_match( &results, &directive, exp ): the symbol tables that bind A
\* and U so that the directive equals exp. U binds constants only; the
\* operands of the commutative + are also tried swapped.
fast_match(d, e) ==
    IF e[1] # d.op THEN {}
    ELSE (IF IsConst(e[3]) THEN {[A |-> e[2], U |-> e[3]]} ELSE {})
         \cup (IF d.op = "add" /\ IsConst(e[2])
               THEN {[A |-> e[3], U |-> e[2]]} ELSE {})

\* The first directive of the list that matches e, 0 if none does.
FirstMatch(e) ==
    LET hits == {i \in 1..Len(directives) : fast_match(directives[i], e) # {}}
    IN IF hits = {} THEN 0 ELSE CHOOSE i \in hits : \A j \in hits : i <= j

\* *results.front().translate( U )->get<true>() * sign, as the mathematical
\* product, and whether the offset's integer type can hold it.
OffsetProduct(tbl, sign, w) == Signed(tbl.U[2], w) * sign
Representable(k) == k >= OffMin /\ k <= OffMax
\* The product as a build that wraps on overflow computes it.
Wrapped(k) == ((k - OffMin) % (2 ^ SplitBits)) + OffMin

\* What every call starts from.
InitRest ==
    /\ reported = [b \in Blocks |-> "none"]
    /\ update_list = <<>>
    /\ utask = <<>>
    /\ ucalls = [b \in Blocks |-> 0]
    /\ work = InitialWork
    /\ flip = InitialFlip
    /\ EngineIdle
    /\ si = 1
    /\ sn = 0
    /\ cnt = 0
    /\ cret = 0
    /\ log = <<>>
    /\ rsum = 0
    /\ posRounds = 0
    /\ zeroRounds = 0
    /\ lastRound = 0
    /\ ranAfterZero = FALSE

Init ==
    /\ \/ /\ InitApply \/ InitCombinator \/ InitCombine
          /\ stale = [b \in Blocks |-> FALSE]
       \/ InitUpdateAnalysis
    /\ InitRest
    /\ width = SplitBits
    /\ exp = Const(0)
    /\ spc = "idle"
    /\ split = <<>>

\* ------------------------------------------------------- apply_pass

\* fassert( cond ): the call goes on only when the condition holds.
fassert(cond) == cond

\* The custom case without its assertion: only the break.
ApplyCustomNoAssert ==
    /\ pc = "call" /\ exec_order = "custom"
    /\ pc' = "ret"
    /\ UNCHANGED <<auxVars, roundVars, combVars, rtnVars, histVars, exec_order, kind, n, visited, roots,
                   stack, queue, entries, it_begin, it_end, wstate, wres, ret>>

\* case execution_order::custom: fassert( T::exec_order != custom ); break;
ApplyCustom ==
    /\ pc = "call" /\ exec_order = "custom"
    /\ pc' = IF fassert(exec_order # "custom") THEN "ret" ELSE "aborted"
    /\ UNCHANGED <<auxVars, roundVars, combVars, rtnVars, histVars, exec_order, kind, n, visited, roots,
                   stack, queue, entries, it_begin, it_end, wstate, wres, ret>>

\* case execution_order::serial: rtn->for_each( worker ).
ApplySerial ==
    /\ pc = "call" /\ exec_order = "serial"
    /\ queue' = [i \in 1..NumBlocks |-> i]
    /\ pc' = "serial"
    /\ UNCHANGED <<auxVars, roundVars, combVars, rtnVars, histVars, exec_order, kind, n, visited, roots,
                   stack, entries, it_begin, it_end, wstate, wres, ret>>

SerialStep ==
    /\ pc = "serial" /\ queue # <<>>
    /\ Worker(Head(queue))
    /\ queue' = Tail(queue)
    /\ UNCHANGED <<auxVars, roundVars, combVars, next, entry_point, exec_order, kind, pc, visited, roots,
                   stack, entries, it_begin, it_end, wstate, wres, ret>>

\* If depth-first, start from entry point; if breadth-first, from each exit.
WalkStartSwapped(order) ==
    IF order = "serial_df" THEN get_exits ELSE {entry_point}
WalkStart(order) ==
    IF order = "serial_df" THEN {entry_point} ELSE get_exits

\* case serial_bf / serial_df: the start blocks of the walk.
ApplyRec ==
    /\ pc = "call" /\ exec_order \in {"serial_bf", "serial_df"}
    /\ roots' = WalkStart(exec_order)
    /\ visited' = {}
    /\ pc' = "rec"
    /\ UNCHANGED <<auxVars, roundVars, combVars, rtnVars, histVars, exec_order, kind, n, stack, queue,
                   entries, it_begin, it_end, wstate, wres, ret>>

\* if ( !visited.emplace( blk ).second ) return;
AlreadyVisitedNever(vis, blk) == FALSE
AlreadyVisited(vis, blk) == blk \in vis

\* The fwd argument of rec: true from the entry point, false from the exits.
FwdNever == FALSE
Fwd == exec_order = "serial_df"

\* The blocks the loop of rec( b ) calls rec on.
RecLinksNone(b) == {}
RecLinks(b) == Links(b, Fwd)

\* The entry of rec( blk, self, fwd ): return on a visited block, otherwise
\* mark it and open the loop over its links.
RecEnter(blk) ==
    IF AlreadyVisited(visited, blk)
    THEN /\ visited' = visited
         /\ stack' = stack
    ELSE /\ Len(stack) < MaxStack
         /\ visited' = visited \cup {blk}
         /\ stack' = Append(stack, [blk |-> blk, todo |-> RecLinks(blk)])

\* rec( rtn->entry_point, rec, true ), or the next exit of rtn->get_exits().
RecRoot ==
    /\ pc = "rec" /\ stack = <<>> /\ roots # {}
    /\ \E r \in roots :
        /\ roots' = roots \ {r}
        /\ RecEnter(r)
    /\ UNCHANGED <<auxVars, roundVars, combVars, rtnVars, histVars, exec_order, kind, pc, n, queue,
                   entries, it_begin, it_end, wstate, wres, ret>>

\* for ( auto& prev : ( fwd ? blk->next : blk->prev ) ) self( prev, self, fwd );
RecCall ==
    /\ pc = "rec" /\ stack # <<>>
    /\ LET top == stack[Len(stack)]
       IN /\ top.todo # {}
          /\ \E s \in top.todo :
               LET rest == [stack EXCEPT ![Len(stack)].todo = top.todo \ {s}]
               IN IF AlreadyVisited(visited, s)
                  THEN /\ visited' = visited
                       /\ stack' = rest
                  ELSE /\ Len(stack) < MaxStack
                       /\ visited' = visited \cup {s}
                       /\ stack' = Append(rest, [blk |-> s, todo |-> RecLinks(s)])
    /\ UNCHANGED <<auxVars, roundVars, combVars, rtnVars, histVars, exec_order, kind, pc, n, roots, queue,
                   entries, it_begin, it_end, wstate, wres, ret>>

\* worker( blk ) at the end of rec, then rec returns to its caller.
RecWork ==
    /\ pc = "rec" /\ stack # <<>>
    /\ stack[Len(stack)].todo = {}
    /\ Worker(stack[Len(stack)].blk)
    /\ stack' = SubSeq(stack, 1, Len(stack) - 1)
    /\ UNCHANGED <<auxVars, roundVars, combVars, next, entry_point, exec_order, kind, pc, visited, roots,
                   queue, entries, it_begin, it_end, wstate, wres, ret>>

\* case execution_order::parallel: transform_parallel over explored_blocks
\* starts one task per element.
ApplyParallel ==
    /\ pc = "call" /\ exec_order = "parallel"
    /\ wstate' = [b \in Blocks |-> IF b \in explored_blocks THEN "ready" ELSE "idle"]
    /\ pc' = "par"
    /\ UNCHANGED <<auxVars, roundVars, combVars, rtnVars, histVars, exec_order, kind, n, visited, roots,
                   stack, queue, entries, it_begin, it_end, wres, ret>>

\* case parallel_bf / parallel_df: auto entries = rtn->get_depth_ordered_list(..).
ApplyLeveled ==
    /\ pc = "call" /\ exec_order \in {"parallel_bf", "parallel_df"}
    /\ entries' = get_depth_ordered_list(exec_order = "parallel_bf")
    /\ it_begin' = 1
    /\ it_end' = 1
    /\ pc' = "seg"
    /\ UNCHANGED <<auxVars, roundVars, combVars, rtnVars, histVars, exec_order, kind, n, visited, roots,
                   stack, queue, wstate, wres, ret>>

\* One round of the segmentation loop: find it_end and queue the segment
\* [it_begin, it_end) for work.
QueueSegment ==
    /\ pc = "seg" /\ it_begin <= Len(entries)
    /\ it_end' = SegmentEnd(entries, it_begin)
    /\ wstate' = [b \in Blocks |->
                    IF b \in SegmentBlocks(entries, it_begin, it_end')
                    THEN "ready" ELSE wstate[b]]
    /\ pc' = "par"
    /\ UNCHANGED <<auxVars, roundVars, combVars, rtnVars, histVars, exec_order, kind, n, visited, roots,
                   stack, queue, entries, it_begin, wres, ret>>

\* A parallel task calls opt->pass( block, true ).
ParPass(b) ==
    /\ pc = "par" /\ wstate[b] = "ready"
    /\ wres' = [wres EXCEPT ![b] = OptCount(b)]
    /\ wstate' = [wstate EXCEPT ![b] = "called"]
    /\ work' = WorkAfter(kind, b)
    /\ flip' = FlipAfter(kind, b)
    /\ trace' = Append(trace, b)
    /\ xflags' = Append(xflags, WorkerXblock)
    /\ leafx' = Append(leafx, LeafXblock)
    /\ sumc' = sumc + OptCount(b)
    /\ UNCHANGED <<auxVars, roundVars, combVars, next, entry_point, exec_order, kind, pc, n, visited, roots,
                   stack, queue, entries, it_begin, it_end, ret>>

\* The task adds the value the pass returned to the atomic n and ends.
ParAdd(b) ==
    /\ pc = "par" /\ wstate[b] = "called"
    /\ n' = AccAdd(n, wres[b])
    /\ wstate' = [wstate EXCEPT ![b] = "done"]
    /\ UNCHANGED <<auxVars, roundVars, combVars, rtnVars, histVars, exec_order, kind, pc, visited, roots,
                   stack, queue, entries, it_begin, it_end, wres, ret>>

\* transform_parallel returns once every task it started has ended.
ParJoin ==
    /\ pc = "par"
    /\ \A b \in Blocks : wstate[b] \in {"idle", "done"}
    /\ IF exec_order = "parallel"
       THEN /\ pc' = "ret"
            /\ it_begin' = it_begin
       ELSE /\ pc' = "seg"
            /\ it_begin' = it_end
    /\ UNCHANGED <<auxVars, roundVars, combVars, rtnVars, histVars, exec_order, kind, n, visited, roots,
                   stack, queue, entries, it_end, wstate, wres, ret>>

\* The walk of the chosen order is over: break out of the switch.
Break ==
    /\ \/ pc = "serial" /\ queue = <<>>
       \/ pc = "rec" /\ stack = <<>> /\ roots = {}
       \/ pc = "seg" /\ it_begin > Len(entries)
    /\ pc' = "ret"
    /\ UNCHANGED <<auxVars, roundVars, combVars, rtnVars, histVars, exec_order, kind, n, visited, roots,
                   stack, queue, entries, it_begin, it_end, wstate, wres, ret>>

\* return n.load();
Return ==
    /\ pc = "ret"
    /\ ret' = n
    /\ pc' = "done"
    /\ UNCHANGED <<auxVars, roundVars, combVars, rtnVars, histVars, exec_order, kind, n, visited, roots,
                   stack, queue, entries, it_begin, it_end, wstate, wres>>

\* ------------------------------------------------------- combinators

\* xpass( rtn ) going to apply_pass( rtn, this ) for every pass, nop_pass
\* included.
SubXpassViaApply(T) ==
    /\ exec_order' = T.order
    /\ kind' = T.kind
    /\ pc' = "call"
    /\ EngineReset
    /\ UNCHANGED rtnVars

\* A sub-pass's xpass( rtn ): apply_pass( rtn, this ) for a pass that keeps
\* pass_interface's xpass, 0 for nop_pass.
SubXpass(T) ==
    /\ exec_order' = T.order
    /\ kind' = T.kind
    /\ pc' = IF T = nop_pass THEN "done" ELSE "call"
    /\ EngineReset
    /\ UNCHANGED rtnVars

\* A sub-pass's pass( blk, xb ).
SubPass(T, xb) ==
    /\ ret' = PassCount(T.kind, arg_blk)
    /\ work' = WorkAfter(T.kind, arg_blk)
    /\ flip' = FlipAfter(T.kind, arg_blk)
    /\ kind' = T.kind
    /\ exec_order' = T.order
    /\ trace' = <<arg_blk>>
    /\ xflags' = <<xb>>
    /\ leafx' = <<xb>>
    /\ sumc' = PassCount(T.kind, arg_blk)
    /\ pc' = "done"
    /\ UNCHANGED <<next, entry_point, n, visited, roots, stack,
                   queue, entries, it_begin, it_end, wstate, wres>>

\* combine_pass: n += combine_pass<Tx...>{}.pass( .. ) follows T1 whatever
\* count T1 returned.
CombineNextIfCount(c) == c # 0
CombineNext(c) == TRUE

\* The combinator calls its next sub-pass: T1{} or the next pass of
\* combine_pass<Tx...>{}.
CallSub ==
    /\ pc = "idle" /\ cpc \in {"first", "rest", "round", "combine"}
    /\ si <= Len(subs)
    /\ cpc = "first" => si = 1
    /\ cpc = "combine" => (si = 1 \/ CombineNext(sn))
    /\ IF op = "xpass"
       THEN SubXpass(subs[si])
       ELSE SubPass(subs[si], IF comb = "combine" THEN LocalXblock(xblock) ELSE xblock)
    /\ ranAfterZero' = (ranAfterZero \/ zeroRounds > 0)
    /\ UNCHANGED <<auxVars, combVars, rsum, posRounds, zeroRounds, lastRound>>

\* The sub-pass returned: its count is added to n.
SubDone ==
    /\ pc = "done" /\ cpc \in {"first", "rest", "round", "combine"}
    /\ sn' = (sn + ret) % SizeMod
    /\ log' = Append(log, [sub |-> si, xb |-> (op = "xpass" \/ xblock), cnt |-> ret,
                           blks |-> trace])
    /\ si' = si + 1
    /\ pc' = "idle"
    /\ UNCHANGED <<auxVars, roundVars, rtnVars, histVars, exec_order, kind, n,
                   visited, roots,
                   stack, queue, entries, it_begin, it_end, wstate, wres, ret,
                   comb, op, subs, arg_blk, xblock, cpc, cnt, cret>>

\* The pass list (wrapped in local_pass or zero_pass, or bare) returns. The
\* wrapper's pass returns ZeroCount( n ); xpass is the wrapper's only for a
\* pass that keeps pass_interface::xpass, where the workers have added the
\* wrapper's counts.
CombineDone ==
    /\ pc = "idle" /\ cpc = "combine"
    /\ si > Len(subs) \/ (si > 1 /\ ~CombineNext(sn))
    /\ cpc' = "done"
    /\ cret' = IF op = "pass" THEN ZeroCount(sn) ELSE sn
    /\ UNCHANGED <<auxVars, roundVars, rtnVars, engVars, histVars,
                   comb, op, subs, arg_blk, xblock, si, sn, cnt, log>>

\* conditional_pass: whether the rest is passed through after T1 reported c.
\* pass( blk, true ) returns T1{}.pass( blk, true ) at once.
RunsRest(c) ==
    IF op = "pass" /\ xblock THEN FALSE ELSE c # 0

\* conditional_pass after T1 returned.
CondFirstDone ==
    /\ pc = "idle" /\ cpc = "first" /\ si = 2
    /\ IF RunsRest(sn)
       THEN /\ cpc' = "rest"
            /\ cret' = cret
       ELSE /\ cpc' = "done"
            /\ cret' = sn
    /\ UNCHANGED <<auxVars, roundVars, rtnVars, engVars, histVars,
                   comb, op, subs, arg_blk, xblock, si, sn, cnt, log>>

\* conditional_pass after combine_pass<Tx...> returned: return n.
CondRestDone ==
    /\ pc = "idle" /\ cpc = "rest" /\ si > Len(subs)
    /\ cpc' = "done"
    /\ cret' = sn
    /\ UNCHANGED <<auxVars, roundVars, rtnVars, engVars, histVars,
                   comb, op, subs, arg_blk, xblock, si, sn, cnt, log>>

\* while ( size_t n = combine_pass<Tx...>{}.pass( .. ) )
ExhaustContinueAlways(c) == TRUE
ExhaustContinue(c) == c # 0

\* cnt += n;
ExhaustAddLast(c, k) == k
ExhaustAdd(c, k) == (c + k) % SizeMod

UpTo2(k) == IF k >= 2 THEN 2 ELSE k

\* exhaust_pass after one round of combine_pass<Tx...>: cnt += n and loop, or
\* return cnt.
ExhaustRoundEnd ==
    /\ pc = "idle" /\ cpc = "round" /\ si > Len(subs)
    /\ IF ExhaustContinue(sn)
       THEN /\ cnt' = ExhaustAdd(cnt, sn)
            /\ sn' = 0
            /\ si' = 1
            /\ log' = <<>>
            /\ UNCHANGED <<cpc, cret>>
       ELSE /\ cret' = cnt
            /\ cpc' = "done"
            /\ UNCHANGED <<cnt, sn, si, log>>
    /\ rsum' = (rsum + sn) % SizeMod
    /\ posRounds' = IF sn # 0 THEN UpTo2(posRounds + 1) ELSE posRounds
    /\ zeroRounds' = IF sn = 0 THEN UpTo2(zeroRounds + 1) ELSE zeroRounds
    /\ lastRound' = sn
    /\ ranAfterZero' = ranAfterZero
    /\ UNCHANGED <<auxVars, rtnVars, engVars, histVars, comb, op, subs, arg_blk,
                   xblock>>

\* ------------------------------------------------ update_analysis::xpass

\* if ( !ref.is_updated( blk ) ): the block goes on the update list.
NeedsUpdateAlways(b) == TRUE
NeedsUpdate(b) == stale[b]

\* xpass is entered: the enumeration of rtn->explored_blocks begins.
UaCall ==
    /\ pc = "idle" /\ cpc = "update"
    /\ queue' = [i \in 1..NumBlocks |-> i]
    /\ pc' = "ua_enum"
    /\ UNCHANGED <<auxVars, roundVars, combVars, rtnVars, histVars, exec_order,
                   kind, n, visited, roots, stack, entries, it_begin, it_end,
                   wstate, wres, ret>>

\* One turn of the for loop: is_updated is asked and the block appended to
\* update_list if required.
UaEnumerate ==
    /\ pc = "ua_enum" /\ queue # <<>>
    /\ LET b == Head(queue) IN
         /\ reported' = [reported EXCEPT ![b] = IF stale[b] THEN "stale" ELSE "updated"]
         /\ update_list' = IF NeedsUpdate(b) THEN Append(update_list, b)
                                             ELSE update_list
    /\ queue' = Tail(queue)
    /\ UNCHANGED <<wrap, splitVars, stale, utask, ucalls, roundVars, combVars, rtnVars,
                   histVars, exec_order, kind, pc, n, visited, roots, stack,
                   entries, it_begin, it_end, wstate, wres, ret>>

\* transform_parallel( update_list, .. ) starts one task per element.
UaParallel ==
    /\ pc = "ua_enum" /\ queue = <<>>
    /\ utask' = [i \in 1..Len(update_list) |-> "ready"]
    /\ pc' = "ua_par"
    /\ UNCHANGED <<wrap, splitVars, stale, reported, update_list, ucalls, roundVars,
                   combVars, rtnVars, histVars, exec_order, kind, n, visited,
                   roots, stack, queue, entries, it_begin, it_end, wstate, wres,
                   ret>>

\* The task of element i calls pair.second->update_if( pair.first ).
UaUpdateCall(i) ==
    /\ pc = "ua_par" /\ i <= Len(utask)
    /\ utask[i] = "ready"
    /\ utask' = [utask EXCEPT ![i] = "running"]
    /\ ucalls' = [ucalls EXCEPT ![update_list[i]] = @ + 1]
    /\ UNCHANGED <<wrap, splitVars, stale, reported, update_list, roundVars, combVars,
                   rtnVars, engVars, histVars>>

\* update_if returns: the block's analysis is updated.
UaUpdateReturn(i) ==
    /\ pc = "ua_par" /\ i <= Len(utask)
    /\ utask[i] = "running"
    /\ utask' = [utask EXCEPT ![i] = "done"]
    /\ stale' = [stale EXCEPT ![update_list[i]] = FALSE]
    /\ UNCHANGED <<wrap, splitVars, reported, update_list, ucalls, roundVars, combVars,
                   rtnVars, engVars, histVars>>

\* transform_parallel returned: return 0.
UaReturn ==
    /\ pc = "ua_par"
    /\ \A i \in 1..Len(utask) : utask[i] = "done"
    /\ pc' = "done"
    /\ cpc' = "done"
    /\ cret' = 0
    /\ UNCHANGED <<auxVars, roundVars, rtnVars, histVars, exec_order, kind, n,
                   visited, roots, stack, queue, entries, it_begin, it_end,
                   wstate, wres, ret, comb, op, subs, arg_blk, xblock, si, sn,
                   cnt, log>>

\* --------------------------------------------------------- split_offset

\* split_offset( exp ) returns: the first directive that matches gives the
\* base bound to A and the offset, with any of the symbol tables the match
\* produced in front; without a match { exp, 0 }.
SplitOffset ==
    /\ spc = "call"
    /\ LET i == FirstMatch(exp) IN
         IF i = 0
         THEN split' = <<exp, 0>>
         ELSE \E tbl \in fast_match(directives[i], exp) :
                 split' = <<tbl.A, Wrapped(OffsetProduct(tbl, directives[i].sign, width))>>
    /\ spc' = "done"
    /\ UNCHANGED <<rtnVars, engVars, histVars, combVars, roundVars, wrap, stale,
                   reported, update_list, utask, ucalls, width, exp>>

\* The signed product overflows the offset's type: undefined behaviour, on
\* which a build either wraps (SplitOffset) or traps.
SplitOverflowTrap ==
    /\ spc = "call"
    /\ LET i == FirstMatch(exp) IN
         /\ i # 0
         /\ \E tbl \in fast_match(directives[i], exp) :
               ~Representable(OffsetProduct(tbl, directives[i].sign, width))
    /\ spc' = "trapped"
    /\ UNCHANGED <<rtnVars, engVars, histVars, combVars, roundVars, wrap, stale,
                   reported, update_list, utask, ucalls, width, exp, split>>

\* split_offset is called with any expression of at most two nested
\* operators, of either width.
InitSplit ==
    /\ comb = "split_offset"
    /\ wrap = "none"
    /\ op = "split_offset"
    /\ subs = <<>>
    /\ arg_blk = 1
    /\ xblock = FALSE
    /\ next = ChainGraph
    /\ entry_point = 1
    /\ exec_order = "custom"
    /\ kind = "nop"
    /\ pc = "idle"
    /\ cpc = "idle"
    /\ stale = [b \in Blocks |-> FALSE]
    /\ InitRest
    /\ width \in Widths
    /\ exp \in Exprs(width)
    /\ spc = "call"
    /\ split = <<>>

NextSplit ==
    \/ SplitOffset
    \/ SplitOverflowTrap

SplitSpec == InitSplit /\ [][NextSplit]_vars

Next ==
    \/ ApplyCustom
    \/ ApplySerial
    \/ SerialStep
    \/ ApplyRec
    \/ RecRoot
    \/ RecCall
    \/ RecWork
    \/ ApplyParallel
    \/ ApplyLeveled
    \/ QueueSegment
    \/ \E b \in Blocks : ParPass(b)
    \/ \E b \in Blocks : ParAdd(b)
    \/ ParJoin
    \/ Break
    \/ Return
    \/ CallSub
    \/ SubDone
    \/ CombineDone
    \/ CondFirstDone
    \/ CondRestDone
    \/ ExhaustRoundEnd
    \/ UaCall
    \/ UaEnumerate
    \/ UaParallel
    \/ \E i \in 1..NumBlocks : UaUpdateCall(i)
    \/ \E i \in 1..NumBlocks : UaUpdateReturn(i)
    \/ UaReturn

Spec == Init /\ [][Next]_vars

\* apply_pass called on a plain rewriting pass of serial_bf or serial_df
\* order (the walk does not read what the pass does), and the steps of that
\* walk. The calling thread keeps running: no step of the walk is postponed
\* forever.
InitSerialWalk ==
    /\ Init
    /\ op = "apply" /\ exec_order \in {"serial_bf", "serial_df"}
    /\ kind = "reduce"

NextSerialWalk ==
    \/ ApplyRec
    \/ RecRoot
    \/ RecCall
    \/ RecWork
    \/ Break
    \/ Return

FairSerialWalk ==
    InitSerialWalk /\ [][NextSerialWalk]_vars /\ WF_vars(NextSerialWalk)

\* exhaust_pass called through xpass or pass, and the steps it takes: its
\* loop, the sub-passes' apply_pass walks and their parallel tasks. Every
\* thread keeps running: no step is postponed forever.
InitExhaust == Init /\ comb = "exhaust"

NextExhaust ==
    \/ ApplySerial
    \/ SerialStep
    \/ ApplyParallel
    \/ \E b \in Blocks : ParPass(b)
    \/ \E b \in Blocks : ParAdd(b)
    \/ ParJoin
    \/ Break
    \/ Return
    \/ CallSub
    \/ SubDone
    \/ ExhaustRoundEnd

FairExhaust ==
    InitExhaust /\ [][NextExhaust]_vars /\ WF_vars(NextExhaust)

\* ------------------------------------------------------------ properties

\* How often opt->pass was invoked on block b by the current apply_pass.
Occ(b) == Cardinality({i \in 1..Len(trace) : trace[i] = b})

\* The state is one of an apply_pass call (not of a single-block pass call).
InApply == op # "pass"

\* The blocks a serial walk follows from b: successors depth-first,
\* predecessors breadth-first.
Follows(b) == IF exec_order = "serial_df" THEN next[b] ELSE Prev(b)

RECURSIVE FollowClosure(_, _)
FollowClosure(S, k) ==
    IF k = 0 THEN S
    ELSE FollowClosure(S \cup UNION {Follows(b) : b \in S}, k - 1)

\* The blocks the walk can reach from the blocks S.
Reachable(S) == FollowClosure(S, NumBlocks)

\* The blocks that have an open activation of rec.
StackBlocks == {stack[i].blk : i \in 1..Len(stack)}

\* The routine is one chain s[1] -> s[2] -> ... entered at s[1].
IsChain(s) ==
    /\ Len(s) = NumBlocks
    /\ {s[i] : i \in 1..NumBlocks} = Blocks
    /\ \A i \in 1..NumBlocks :
         next[s[i]] = IF i < NumBlocks THEN {s[i + 1]} ELSE {}
    /\ entry_point = s[1]

Reverse(s) == [i \in 1..Len(s) |-> s[Len(s) + 1 - i]]

Chains == {s \in [1..NumBlocks -> Blocks] : IsChain(s)}

SerialWalkDone ==
    InApply /\ pc = "done" /\ exec_order \in {"serial_bf", "serial_df"}

\* C1 as stated: on a chain A -> B -> C entered at A, serial_df invokes the
\* pass on A, B, C in that order and serial_bf on C, B, A.
C1_ChainOrderAsStated ==
    SerialWalkDone =>
        \A s \in Chains :
            trace = IF exec_order = "serial_df" THEN s ELSE Reverse(s)

\* C1 amended: on a chain A -> B -> C entered at A, serial_df invokes the pass
\* on C, then B, then A (each once) and serial_bf on A, then B, then C.
C1_ChainOrder ==
    SerialWalkDone =>
        \A s \in Chains :
            trace = IF exec_order = "serial_df" THEN Reverse(s) ELSE s

C1_Witness ==
    /\ SerialWalkDone /\ exec_order = "serial_df" /\ op = "apply"
    /\ Chains # {}
    /\ Len(trace) = NumBlocks
    /\ trace[NumBlocks] = entry_point

\* C2 as stated: in a serial_df / serial_bf walk the pass is invoked on a
\* block only after it was invoked on every block the walk follows from it.
C2_AfterAllFollowedAsStated ==
    (InApply /\ exec_order \in {"serial_bf", "serial_df"}) =>
        \A i \in 1..Len(trace) : \A f \in Follows(trace[i]) :
            \E j \in 1..(i - 1) : trace[j] = f

\* C2 amended: the pass is invoked on a block only after it was invoked on
\* every block the walk follows from it, except the followed blocks whose own
\* rec call is still open (the block itself or an ancestor in the recursion,
\* so the link closes a cycle): those get the pass later.
C2_AfterAllFollowed ==
    (InApply /\ exec_order \in {"serial_bf", "serial_df"}) =>
        \A i \in 1..Len(trace) : \A f \in Follows(trace[i]) :
            \/ \E j \in 1..(i - 1) : trace[j] = f
            \/ /\ trace[i] \in Reachable({f})
               /\ \/ f \in StackBlocks
                  \/ \E j \in i..Len(trace) : trace[j] = f

C2_Witness ==
    /\ SerialWalkDone /\ op = "apply"
    /\ \E i \in 1..Len(trace) : \E f \in Follows(trace[i]) :
         /\ f # trace[i]
         /\ \E j \in (i + 1)..Len(trace) : trace[j] = f
    /\ \E i \in 1..Len(trace) : \E f \in Follows(trace[i]) :
         \E j \in 1..(i - 1) : trace[j] = f

\* C3: within one apply_pass call, whatever the order and the graph, the
\* pass's block transform is invoked at most once per block.
C3_AtMostOncePerBlock ==
    InApply => \A b \in Blocks : Occ(b) <= 1

\* A finished serial walk over a graph where a block is reached along two
\* paths and a link closes a cycle.
C3_Witness ==
    /\ SerialWalkDone /\ op = "apply"
    /\ \E b \in Blocks : Cardinality(Follows(b) \ {b}) >= 2
    /\ \E b \in Blocks : \E f \in Follows(b) : b \in Reachable({f})
    /\ Len(trace) = NumBlocks

C5_SerialWalkTerminates ==
    (op = "apply" /\ exec_order \in {"serial_bf", "serial_df"}) =>
        /\ <>(pc = "done")
        /\ [](Len(trace) <= NumBlocks)

\* A finished walk over a graph with a cycle of two or more blocks, all of
\* them walked.
C5_Witness ==
    /\ SerialWalkDone /\ op = "apply"
    /\ \E b \in Blocks : \E f \in Follows(b) :
         f # b /\ b \in Reachable({f}) /\ Occ(b) = 1 /\ Occ(f) = 1

\* C6: with parallel order, under every interleaving of the workers, every
\* explored block is processed by exactly one worker and the returned total
\* is the sum of the counts the per-block transform calls returned.
C6_ParallelTotal ==
    (InApply /\ exec_order = "parallel") =>
        /\ \A b \in Blocks : Occ(b) <= 1
        /\ \A b \in Blocks : Occ(b) = IF wstate[b] \in {"called", "done"} THEN 1 ELSE 0
        /\ pc = "done" =>
             /\ \A b \in explored_blocks : Occ(b) = 1
             /\ ret = sumc % SizeMod

\* Two workers held their counts at once, in an order other than the
\* enumeration's, before the total was returned.
C6_Witness ==
    /\ op = "apply" /\ exec_order = "parallel" /\ pc = "done"
    /\ ret >= 2
    /\ \E i \in 1..(Len(trace) - 1) : trace[i] > trace[i + 1]

\* depth_placement::level_dependency of the listed block b.
EntryLevel(b) ==
    LET i == CHOOSE k \in 1..Len(entries) : entries[k].block = b
    IN entries[i].level_dependency

ListedBlocks == {entries[i].block : i \in 1..Len(entries)}

\* C7: with parallel_bf / parallel_df order no worker for a block of a later
\* dependency level starts before every worker for the blocks of the lower
\* levels has completed; blocks of one level run in any interleaving.
C7_LevelBarrier ==
    (InApply /\ exec_order \in {"parallel_bf", "parallel_df"}) =>
        \A b \in ListedBlocks : \A c \in ListedBlocks :
            (wstate[b] # "idle" /\ EntryLevel(c) < EntryLevel(b)) =>
                wstate[c] = "done"

\* Two blocks of the second level are both inside the pass, the one listed
\* later first, after the first level completed.
C7_Witness ==
    /\ op = "apply" /\ exec_order \in {"parallel_bf", "parallel_df"} /\ pc = "par"
    /\ \E b \in ListedBlocks : \E c \in ListedBlocks :
         /\ b < c
         /\ EntryLevel(b) = EntryLevel(c) /\ EntryLevel(b) > 0
         /\ wstate[b] = "called" /\ wstate[c] = "called"
         /\ \E i \in 1..(Len(trace) - 1) : trace[i] = c /\ trace[i + 1] = b

\* C8: apply_pass on a pass whose exec_order is custom fails the assertion:
\* the call never returns, the block transform is invoked on no block and
\* the routine is left unchanged.
C8_CustomIsFatal ==
    (op = "apply" /\ exec_order = "custom") =>
        /\ pc \in {"call", "aborted"}
        /\ trace = <<>>
        /\ work = InitialWork /\ flip = InitialFlip

C8_Witness ==
    op = "apply" /\ exec_order = "custom" /\ pc = "aborted" /\ kind = "toggle"

RECURSIVE LogSum(_)
LogSum(l) == IF l = <<>> THEN 0 ELSE l[1].cnt + LogSum(Tail(l))

\* C9 as stated: conditional_pass runs T1 first, runs the remaining
\* sub-passes if and only if T1 reported a count greater than 0, and returns
\* T1's count plus the count of the rest, from xpass and from pass with
\* xblock false or true.
C9_ConditionalAsStated ==
    (comb = "conditional" /\ cpc = "done") =>
        /\ Len(log) >= 1 /\ log[1].sub = 1
        /\ (log[1].cnt > 0) <=> (Len(log) = Len(subs))
        /\ (log[1].cnt = 0) <=> (Len(log) = 1)
        /\ \A i \in 1..Len(log) : log[i].sub = i
        /\ cret = LogSum(log) % SizeMod

\* The rewriting sub-passes stop reporting rewrites once a block has none
\* left: no sub-pass reports a rewrite on every call.
Converging == \A i \in 1..Len(subs) : subs[i].kind # "toggle"

\* C10 as stated: exhaust_pass terminates for every block or routine and
\* every sequence of sub-passes.
C10_ExhaustTerminatesAsStated ==
    (comb = "exhaust") => <>(cpc = "done")

\* C10 amended: exhaust_pass returns exactly when a round reports 0: its loop
\* terminates whenever the sub-passes stop reporting rewrites after finitely
\* many rounds, and it never returns while every round reports a count
\* greater than 0.
C10_ExhaustTerminates ==
    (comb = "exhaust") =>
        /\ Converging => <>(cpc = "done")
        /\ ~Converging => [](cpc # "done")
        /\ [](cpc = "done" => (sn = 0 /\ si > Len(subs)))

\* exhaust_pass returned from xpass after a round that rewrote in parallel
\* and a last round that reported 0.
C10_Witness ==
    /\ comb = "exhaust" /\ cpc = "done" /\ op = "xpass"
    /\ cret >= 2
    /\ exec_order = "parallel"
    /\ Len(log) = Len(subs)

\* C11: whenever exhaust_pass::pass or ::xpass returns, the returned count is
\* the sum of the counts of all rounds it executed, the last round reported
\* 0 and every round before it a count > 0, and no round is executed after
\* the first round that reports 0.
C11_ExhaustSum ==
    (comb = "exhaust") =>
        /\ ~ranAfterZero
        /\ zeroRounds <= 1
        /\ zeroRounds = 1 <=> cpc = "done"
        /\ cpc = "done" =>
             /\ cret = rsum
             /\ lastRound = 0

\* exhaust_pass returned after two rounds that rewrote and a last round that
\* reported 0.
C11_Witness ==
    /\ comb = "exhaust" /\ cpc = "done"
    /\ posRounds = 2 /\ zeroRounds = 1
    /\ cret >= 3

\* The blocks a sequence lists.
Range(q) == {q[i] : i \in 1..Len(q)}

\* C12: combine_pass<T1, ..., Tn> runs the sub-passes in declaration order
\* and returns the sum of their counts; in xpass sub-pass Ti has returned,
\* after it was invoked on every block of the routine, before Ti+1 is invoked
\* on any block; every sub-pass is run whatever the earlier ones reported.
C12_CombineInOrder ==
    (comb = "combine" /\ wrap = "none" /\ Len(subs) >= 2) =>
        /\ Len(log) = si - 1
        /\ \A i \in 1..Len(log) : log[i].sub = i
        /\ (op = "xpass" /\ pc # "idle") =>
             /\ kind = subs[si].kind
             /\ \A j \in 1..(si - 1) :
                  subs[j] # nop_pass => Range(log[j].blks) = explored_blocks
        /\ cpc = "done" =>
             /\ Len(log) = Len(subs)
             /\ cret = LogSum(log) % SizeMod

\* combine_pass<T1, T2>::xpass returned: T1 reported 0 and T2, run after it
\* on every block, reported rewrites.
C12_Witness ==
    /\ comb = "combine" /\ wrap = "none" /\ op = "xpass" /\ cpc = "done"
    /\ Len(subs) = 2 /\ Len(log) = 2
    /\ log[1].cnt = 0 /\ log[2].cnt > 0
    /\ Range(log[2].blks) = explored_blocks

\* C13 as stated: for local_pass<T> every invocation of the wrapped pass's
\* block transform receives xblock = false, through pass( blk, xblock ) with
\* either value and through xpass, for every T, the pass lists that override
\* xpass included.
C13_LocalAlwaysFalseAsStated ==
    (comb = "combine" /\ wrap = "local") =>
        \A i \in 1..Len(leafx) : leafx[i] = FALSE

\* C14 as stated: zero_pass<T> reports 0 from pass and from xpass for every
\* T, the pass lists that override xpass included.
C14_ZeroAlwaysZeroAsStated ==
    (comb = "combine" /\ wrap = "zero" /\ cpc = "done") => cret = 0

\* C15 as stated: apply_pass( rtn, opt ) with the no-op pass nop_pass
\* returns 0 and leaves the routine unchanged.
C15_NopApplyAsStated ==
    (op = "apply" /\ subs[1] = nop_pass) =>
        /\ pc # "aborted"
        /\ pc = "done" => ret = 0
        /\ work = InitialWork /\ flip = InitialFlip

\* C15: nop_pass's own xpass( rtn ) and pass( blk, xblock ) return 0, invoke
\* no block transform and leave the routine unchanged; apply_pass with a
\* pass that rewrites nothing leaves the routine unchanged and returns 0 for
\* every order but custom, the order nop_pass declares, for which the call
\* fails the assertion and never returns.
C15_NopFrame ==
    /\ (comb = "combine" /\ subs = <<nop_pass>>) =>
         /\ pc \in {"idle", "done"}
         /\ op = "xpass" => trace = <<>>
         /\ work = InitialWork /\ flip = InitialFlip
         /\ next = ChainGraph /\ entry_point = 1
         /\ cpc = "done" => cret = 0
    /\ (op = "apply" /\ kind = "nop") =>
         /\ work = InitialWork /\ flip = InitialFlip
         /\ next = ChainGraph /\ entry_point = 1
         /\ exec_order = "custom" => pc \in {"call", "aborted"}
         /\ pc = "done" => ret = 0

\* nop_pass{}.xpass( rtn ) returned.
C15_Witness ==
    /\ comb = "combine" /\ subs = <<nop_pass>> /\ wrap = "none"
    /\ op = "xpass" /\ cpc = "done" /\ cret = 0

\* C16: update_analysis<T>::xpass calls update_if exactly once for each block
\* whose analysis reported itself stale during the enumeration and never for
\* a block that reported itself updated, no two refreshes that run at the
\* same time target the same block, and the call returns 0.
C16_UpdateOncePerStale ==
    (comb = "update_analysis") =>
        /\ \A b \in Blocks :
             /\ ucalls[b] <= 1
             /\ reported[b] # "stale" => ucalls[b] = 0
             /\ cpc = "done" => (ucalls[b] = 1 <=> reported[b] = "stale")
        /\ \A i, j \in 1..Len(utask) :
             (i # j /\ utask[i] = "running" /\ utask[j] = "running")
                 => update_list[i] # update_list[j]
        /\ cpc = "done" =>
             /\ cret = 0
             /\ \A b \in Blocks : reported[b] # "none" /\ ~stale[b]

\* Two refreshes of different stale blocks run at the same time, while a
\* third block that reported itself updated is left alone.
C16_Witness ==
    /\ comb = "update_analysis" /\ pc = "ua_par"
    /\ \E i, j \in 1..Len(utask) :
         i # j /\ utask[i] = "running" /\ utask[j] = "running"
    /\ \E b \in Blocks : reported[b] = "updated"

\* A pass is idempotent: run a second time on a block, it leaves the block
\* as the first run left it.
IdempotentKinds ==
    {k \in PassKinds :
        \A b \in Blocks :
            /\ \A w \in [Blocks -> 0..MaxWork] :
                 Rewritten(Rewritten(w, k, b), k, b) = Rewritten(w, k, b)
            /\ \A f \in [Blocks -> {0, 1}] :
                 Flipped(Flipped(f, k, b), k, b) = Flipped(f, k, b)}

\* The block contents after the serial order ran pass k: rtn->for_each
\* runs it on every block, in the enumeration's order.
RECURSIVE RewrittenAll(_, _, _)
RewrittenAll(w, k, q) ==
    IF q = <<>> THEN w ELSE RewrittenAll(Rewritten(w, k, Head(q)), k, Tail(q))

SerialFinalWork(k) == RewrittenAll(InitialWork, k, [i \in 1..NumBlocks |-> i])

\* The blocks linked to the blocks S in direction fwd, S included.
RECURSIVE LinkClosure(_, _, _)
LinkClosure(S, fwd, k) ==
    IF k = 0 THEN S
    ELSE LinkClosure(S \cup UNION {Links(b, fwd) : b \in S}, fwd, k - 1)

\* The blocks an execution order's walk comes to.
Covered(order) ==
    CASE order \in {"serial", "parallel"} -> explored_blocks
      [] order \in {"serial_df", "parallel_bf"} ->
            LinkClosure({entry_point}, TRUE, NumBlocks)
      [] order \in {"serial_bf", "parallel_df"} ->
            LinkClosure(get_exits, FALSE, NumBlocks)
      [] OTHER -> {}

ApplyDoneIdempotent ==
    op = "apply" /\ pc = "done" /\ kind \in IdempotentKinds

Recon(base, k, env, w) ==
    IF k = 0 THEN Eval(base, env, w)
    ELSE Eval(Bin("add", base, Const(((k % (2 ^ w)) + 2 ^ w) % (2 ^ w))), env, w)

\* k equals c modulo 2^w.
SameMod(k, c, w) == (k - c) % (2 ^ w) = 0

\* C18: if split_offset(E) = (B, K) then B + K (B alone when K = 0) equals
\* E under the arithmetic modulo 2^width; K is +c when E is base + constant
\* c (either operand order), -c when E is base - constant c, and the result
\* is (E, 0) otherwise.
C18_SplitRebuilds ==
    (spc = "done") =>
        LET B == split[1]
            K == split[2]
        IN /\ Representable(K)
           /\ \A env \in [Symbols -> 0..(2 ^ width - 1)] :
                Recon(B, K, env, width) = Eval(exp, env, width)
           /\ CASE exp[1] = "add" /\ (IsConst(exp[2]) \/ IsConst(exp[3])) ->
                     \/ IsConst(exp[3]) /\ B = exp[2] /\ SameMod(K, exp[3][2], width)
                     \/ IsConst(exp[2]) /\ B = exp[3] /\ SameMod(K, exp[2][2], width)
                [] exp[1] = "sub" /\ IsConst(exp[3]) ->
                     B = exp[2] /\ SameMod(K, 0 - exp[3][2], width)
                [] OTHER -> split = <<exp, 0>>

\* split_offset returned a negative offset for (a + b) - c.
C18_Witness ==
    /\ spc = "done" /\ width = SplitBits
    /\ exp[1] = "sub" /\ exp[2][1] = "add"
    /\ split[1] = exp[2] /\ split[2] < 0

C20_DispatchCrossBlock ==
    InApply =>
        /\ Len(xflags) = Len(trace)
        /\ \A i \in 1..Len(xflags) : xflags[i] = TRUE

\* Two workers of a parallel order are inside the pass at once, both called
\* with xblock = true.
C20_Witness ==
    /\ op = "apply" /\ exec_order = "parallel" /\ pc = "par"
    /\ \E b \in Blocks : \E c \in Blocks \ {b} :
         wstate[b] = "called" /\ wstate[c] = "called"
    /\ Len(xflags) = 2 /\ xflags[1] /\ xflags[2]

====
